---- MODULE Spec2Model ----
(***************************************************************************)
(* A model of quran_dl.py: the item fetch (QuranDownloader._download_surah *)
(* with _get_remote_file_info, _download_with_progress, _verify_download)  *)
(* and the orchestrator (QuranDownloader.download) that fans the fetches   *)
(* out over a ThreadPoolExecutor and aggregates their results.             *)
(*                                                                         *)
(* One byte of the model stands for one chunk of iter_content.  The        *)
(* remote is part of the environment: a "good" remote answers every        *)
(* request correctly and honours Range (416 on an unsatisfiable range), a  *)
(* "norange" remote is correct but ignores Range and always sends the      *)
(* whole item, a "down" remote fails every request, a "flaky" remote         *)
(* serves, fails or truncates request by request, a "bad" remote may do    *)
(* any of these and may also corrupt or break off what it sends.           *)
(***************************************************************************)
EXTENDS Integers, Sequences, FiniteSets, TLC

\* ------------------------------------------------------------ bounds
MaxSurah == 2        \* item numbers 1..MaxSurah stand for 1..114
MaxRetries == 2      \* max_retries ranges over 0..MaxRetries
MaxWorkers == 2      \* max_workers ranges over 1..MaxWorkers
MaxRuns == 2         \* invocations of download() (or direct calls of the fetch)
FileSize == 2        \* length of the remote item, in chunks
CacheExpiry == 2     \* self.cache_expiry, in clock ticks (3600 s in the source)
MaxTime == 4         \* the clock runs from 0 to MaxTime
MaxExprLen == 4      \* symbols of a selection expression

\* The last item number: range(1, 115), 1 <= start <= end <= 114
LastSurah == 114

Surahs == 1..MaxSurah

\* Python's None, for the path and error fields of a result.
None == "None"

\* ------------------------------------------------------------ files
Bytes == {1, 2}

\* The remote item's content: 1,2,1,2,...
Content == [k \in 1..FileSize |-> IF k % 2 = 1 THEN 1 ELSE 2]

\* No file grows beyond this length: a write to a file of this length fails.
\* A temporary file one chunk longer than the item can still take the whole item.
DiskQuota == 2 * FileSize + 1

NoFile == [exists |-> FALSE, data |-> <<>>]
File(d) == [exists |-> TRUE, data |-> d]

\* f"{surah:03d}"
Pad3(n) ==
    IF n < 10 THEN "00" \o ToString(n)
    ELSE IF n < 100 THEN "0" \o ToString(n)
    ELSE ToString(n)

\* filepath = os.path.join(download_dir, f"{surah:03d}.mp3")
FilePath(s) == Pad3(s) \o ".mp3"

\* Mutant of TempPath: one temporary name for every item.
TempPath_Shared(s) == "download.tmp"

\* temp_path = filepath + ".tmp"
TempPath(s) == FilePath(s) \o ".tmp"

Paths == {FilePath(s) : s \in Surahs} \cup {TempPath(s) : s \in Surahs}

\* _get_file_hash: a digest of the content, never 0 (0 stands for "no hash").
\* Injective on the bounded contents, as MD5 is taken to be.
RECURSIVE FileHash(_)
FileHash(d) ==
    IF d = <<>> THEN 1
    ELSE 3 * FileHash(SubSeq(d, 1, Len(d) - 1)) + d[Len(d)]

\* ------------------------------------------------------------ state
VARIABLES
    max_workers,      \* self.max_workers
    max_retries,      \* self.max_retries
    remote,           \* per item: how the remote item endpoint behaves
    exposesMd5,       \* whether the remote sends a content-md5 header
    dirExists,        \* whether the reciter directory exists
    fs,               \* path -> file: the files of the reciter directory
    run,              \* invocations made so far
    mainpc,           \* position of download(): idle, fanout, returned (after the
                      \* fan-out), or where it ended before the fan-out: "no
                      \* reciters", "declined" (returned), "reciter not found",
                      \* "invalid selection" (raised)
    selection,        \* surahs_to_download
    summary,          \* the summary dictionary
    pc,               \* per item: position of its _download_surah call
    result,           \* per item: the result dictionary
    original_size,    \* per item: original_size of _download_surah
    remote_hash,      \* per item: remote_hash of _download_surah (0: None)
    calls,            \* per item: _download_surah calls made in this invocation
    collected,        \* per item: outcomes added to the summary in this invocation
    requests,         \* per item: transfer requests issued by the current call
    lastRange,        \* per item: first byte asked for by the last transfer request
                      \*           (0: no Range header; -1: no request yet)
    lastEnd,          \* per item: how the last transfer ended and how many chunks
                      \*           it wrote to the temporary file
    reciters_cache,       \* self.reciters_cache: None or the stored catalogue
    reciters_cache_time,  \* self.reciters_cache_time
    now,                  \* time.time()
    lastCall,             \* the last get_reciters call: its argument, what the
                          \* remote answered, what it returned, its requests
    expr,                 \* the selection expression given to parse_surah_selection
    parsed                \* what parse_surah_selection did with it

vars == <<max_workers, max_retries, remote, exposesMd5, dirExists, fs,
          run, mainpc, selection, summary, pc, result, original_size,
          remote_hash, calls, collected, requests, lastRange, lastEnd,
          reciters_cache, reciters_cache_time, now, lastCall, expr, parsed>>

config == <<max_workers, max_retries, remote, exposesMd5>>
mainVars == <<mainpc, selection, summary, collected>>
catVars == <<reciters_cache, reciters_cache_time, now, lastCall>>
parseVars == <<expr, parsed>>
downloadVars == <<config, dirExists, fs, run, mainVars, pc, result, original_size,
                  remote_hash, calls, requests, lastRange, lastEnd>>

\* ------------------------------------------------------------ the remote
\* good: serves the item and honours Range; norange: ignores Range; down:
\* every request fails; nosize: sends no content-length; flaky: request by
\* request it answers or fails the size query, and serves the item, fails, or
\* sends it short of its last chunk; bad: as flaky, and it may ignore Range,
\* corrupt the content, or break the connection during the transfer.
RemoteKinds == {"good", "norange", "down", "nosize", "flaky", "bad"}

\* What a HEAD or a GET answers to _get_remote_file_info: an error, or the
\* content-length (0 when the header is missing) and the content-md5 (0: none).
InfoErr == [ok |-> FALSE, size |-> 0, hash |-> 0]
InfoOf(size, md5) == [ok |-> TRUE, size |-> size, hash |-> md5]
TrueInfo == InfoOf(FileSize, IF exposesMd5 THEN FileHash(Content) ELSE 0)

InfoResponses(kind) ==
    CASE kind \in {"flaky", "bad"} -> {InfoErr, InfoOf(0, 0), TrueInfo}
      [] kind = "down" -> {InfoErr}
      [] kind = "nosize" -> {InfoOf(0, 0)}
      [] OTHER -> {TrueInfo}

\* What the remote answers to the transfer request of _download_with_progress
\* whose Range header starts at byte `from` (0: no header): an error status, or
\* the body it will stream.
RespErr == [ok |-> FALSE, body |-> <<>>]
RespOf(b) == [ok |-> TRUE, body |-> b]
Rest(from) == SubSeq(Content, from + 1, FileSize)
Flip(b) == [k \in 1..Len(b) |-> IF b[k] = 1 THEN 2 ELSE 1]

GoodResponse(from) == IF from >= FileSize THEN RespErr ELSE RespOf(Rest(from))

TransferResponses(kind, from) ==
    CASE kind \in {"good", "nosize"} -> {GoodResponse(from)}
      [] kind = "norange" -> {RespOf(Content)}
      [] kind = "down" -> {RespErr}
      [] kind = "flaky" ->
            {RespErr, GoodResponse(from)}
            \cup (IF from < FileSize
                  THEN {RespOf(SubSeq(Content, from + 1, FileSize - 1))}
                  ELSE {})
      [] OTHER ->
            {RespErr, RespOf(Content), GoodResponse(from)}
            \cup (IF from < FileSize
                  THEN {RespOf(SubSeq(Content, from + 1, FileSize - 1)),
                        RespOf(Flip(Rest(from)))}
                  ELSE {})

\* ------------------------------------------------------------ helpers of the fetch
\* Mutant of VerifyDownload: the size comparison is inverted.
VerifyDownload_SizeInverted(f, size, md5) ==
    IF ~f.exists THEN FALSE
    ELSE IF Len(f.data) = size THEN FALSE
    ELSE IF md5 # 0 THEN FileHash(f.data) = md5
    ELSE TRUE

\* Mutant of VerifyDownload: the size is not compared.
VerifyDownload_NoSize(f, size, md5) ==
    IF ~f.exists THEN FALSE
    ELSE IF md5 # 0 THEN FileHash(f.data) = md5
    ELSE TRUE

\* _verify_download(local_path, original_size, remote_hash)
VerifyDownload(f, size, md5) ==
    IF ~f.exists THEN FALSE
    ELSE IF Len(f.data) # size THEN FALSE
    ELSE IF md5 # 0 THEN FileHash(f.data) = md5
    ELSE TRUE

\* _get_remote_file_info(url): HEAD first, GET when HEAD fails, an exception
\* (InfoErr) when both fail.
GetRemoteFileInfo(head, get) ==
    IF head.ok THEN head ELSE IF get.ok THEN get ELSE InfoErr

\* Mutant of AlreadyDownloaded: the existing file is looked for at the
\* temporary path's name, which a finished download never has.
AlreadyDownloaded_Never(dest, info) == FALSE

\* Mutant of AlreadyDownloaded: the existing file is not verified.
AlreadyDownloaded_ExistsOnly(dest, info) == dest.exists /\ info.ok

\* The fast path of _download_surah: the destination file exists, the remote
\* answered the size query, and the file passes the verification.
AlreadyDownloaded(dest, info) ==
    /\ dest.exists
    /\ info.ok
    /\ VerifyDownload(dest, info.size, info.hash)

\* What the two calls of _get_remote_file_info in _download_surah can return.
InfoResults(kind) ==
    {GetRemoteFileInfo(head, get) : head \in InfoResponses(kind), get \in InfoResponses(kind)}

\* "Get original file info" in _download_surah: the error that ends the fetch
\* when the size query raised or the declared size is 0; None otherwise.
SizeQueryError(info) ==
    IF ~info.ok THEN "Failed to get file info"
    ELSE IF info.size = 0 THEN "Invalid file size (0 bytes)"
    ELSE None

\* os.makedirs(download_dir, exist_ok=True): whether it can return.  Making a
\* directory that exists always does; creating one may fail (OSError).
Makedirs == IF dirExists THEN {TRUE} ELSE BOOLEAN

\* resume_byte_pos of _download_with_progress
ResumeBytePos(f) == IF f.exists THEN Len(f.data) ELSE 0

\* Mutant of OpenTemp: the file is always opened with 'wb'.
OpenTemp_Truncate(f, resume) == File(<<>>)

\* open(temp_path, 'ab' if resume_byte_pos else 'wb')
OpenTemp(f, resume) == IF resume # 0 THEN File(f.data) ELSE File(<<>>)

\* Mutant of OnTransferException: the temporary file is always removed.
OnTransferException_Remove(f, resume) == NoFile

\* The except clause of _download_with_progress: the temporary file is removed
\* only when the failed transfer was not a resumed one.
OnTransferException(f, resume) ==
    IF f.exists /\ resume = 0 THEN NoFile ELSE f

\* Mutant of AfterFailedAttempt: the loop makes one iteration too many.
AfterFailedAttempt_OneMore(attempt) ==
    IF attempt <= max_retries THEN "attempt" ELSE "ret"

\* The retry loop of _download_surah after a failed attempt: the next
\* iteration, or the return after the loop.
AfterFailedAttempt(attempt) == IF attempt < max_retries THEN "attempt" ELSE "ret"

\* No transfer request was issued yet.
NoTransfer == [how |-> "none", written |-> 0]

\* result = {'surah': surah, 'success': False, 'path': None, 'error': None, 'attempts': 0}
NewResult(s) ==
    [surah |-> s, success |-> FALSE, path |-> None, error |-> None, attempts |-> 0]

\* ------------------------------------------------------------ the item fetch
\* _download_surah from its entry to the retry loop: the result is created,
\* the directory made, the fast path tried on an existing destination file,
\* the remote size queried.
DownloadSurahEntry(s) ==
    /\ calls' = [calls EXCEPT ![s] = @ + 1]
    /\ requests' = [requests EXCEPT ![s] = 0]
    /\ lastRange' = [lastRange EXCEPT ![s] = -1]
    /\ lastEnd' = [lastEnd EXCEPT ![s] = NoTransfer]
    /\ UNCHANGED fs
    /\ \E made \in Makedirs :
       IF ~made
       THEN \* os.makedirs raises, outside any try
            /\ pc' = [pc EXCEPT ![s] = "raised"]
            /\ result' = [result EXCEPT ![s] = NewResult(s)]
            /\ original_size' = [original_size EXCEPT ![s] = 0]
            /\ remote_hash' = [remote_hash EXCEPT ![s] = 0]
            /\ UNCHANGED dirExists
       ELSE /\ dirExists' = TRUE
            /\ \E info1, info2 \in InfoResults(remote[s]) :
                 LET dest == fs[FilePath(s)]
                     fast == AlreadyDownloaded(dest, info1)
                     enter == ~fast /\ SizeQueryError(info2) = None
                 IN /\ result' = [result EXCEPT ![s] =
                          IF fast
                          THEN [NewResult(s) EXCEPT !.success = TRUE, !.path = FilePath(s)]
                          ELSE [NewResult(s) EXCEPT !.error = SizeQueryError(info2)]]
                    /\ original_size' = [original_size EXCEPT ![s] = IF enter THEN info2.size ELSE 0]
                    /\ remote_hash' = [remote_hash EXCEPT ![s] = IF enter THEN info2.hash ELSE 0]
                    /\ pc' = [pc EXCEPT ![s] =
                          IF enter /\ max_retries >= 1 THEN "attempt" ELSE "ret"]

\* _download_with_progress(url, filepath, expected_size) on the temporary file
\* `temp`: every way the call can end.  ok: it returned True (the body was
\* received to its end); otherwise it raised, after its except clause ran.
\* A request that fails raises before the file is opened; a connection that
\* breaks (bad remote) raises after any number of chunks were written, and so
\* does f.write when the file has reached the disk quota.
DownloadWithProgress(kind, temp) ==
    LET resume == ResumeBytePos(temp)
        answers == TransferResponses(kind, resume)
        bodies == {r.body : r \in {x \in answers : x.ok}}
        opened == OpenTemp(temp, resume)
        refused ==
            {[ok |-> FALSE, temp |-> OnTransferException(temp, resume),
              error |-> "ConnectionError", how |-> "refused", written |-> 0] :
                r \in {x \in answers : ~x.ok}}
        room == DiskQuota - Len(opened.data)
        received ==
            {[ok |-> TRUE, temp |-> File(opened.data \o b), error |-> None,
              how |-> "received", written |-> Len(b)] :
                b \in {x \in bodies : Len(x) <= room}}
        full ==
            {[ok |-> FALSE,
              temp |-> OnTransferException(File(opened.data \o SubSeq(b, 1, room)), resume),
              error |-> "OSError", how |-> "disk full", written |-> room] :
                b \in {x \in bodies : Len(x) > room}}
        broken ==
            IF kind = "bad"
            THEN UNION {{[ok |-> FALSE,
                          temp |-> OnTransferException(
                                       File(opened.data \o SubSeq(b, 1, k)), resume),
                          error |-> "ConnectionError", how |-> "broken",
                          written |-> k] :
                            k \in 0..(IF Len(b) <= room THEN Len(b) ELSE room)} :
                        b \in bodies}
            ELSE {}
    IN refused \cup received \cup full \cup broken

\* Mutant of RemoveTemp: the rejected temporary file is left where it is.
RemoveTemp_Kept(f, s) == f

\* os.remove(temp_path), after a transfer that did not pass the verification
RemoveTemp(f, s) == [f EXCEPT ![TempPath(s)] = NoFile]

\* os.replace(temp_path, filepath)
Replace(f, s) == [f EXCEPT ![FilePath(s)] = f[TempPath(s)], ![TempPath(s)] = NoFile]

\* One iteration of the retry loop of _download_surah: the transfer, then the
\* verification of the temporary file, which is renamed to the destination
\* path (success, return) or removed; an exception of the transfer is
\* recorded in the result.  Then the next iteration, or the return.
Attempt(s) ==
    /\ pc[s] = "attempt"
    /\ LET attempt == result[s].attempts + 1
           temp == fs[TempPath(s)]
       IN /\ requests' = [requests EXCEPT ![s] = @ + 1]
          /\ lastRange' = [lastRange EXCEPT ![s] = ResumeBytePos(temp)]
          /\ \E out \in DownloadWithProgress(remote[s], temp) :
               LET written == [fs EXCEPT ![TempPath(s)] = out.temp]
               IN /\ lastEnd' = [lastEnd EXCEPT ![s] =
                                    [how |-> out.how, written |-> out.written]]
                  /\ IF out.ok
                     THEN IF VerifyDownload(out.temp, original_size[s], remote_hash[s])
                          THEN /\ fs' = Replace(written, s)
                               /\ result' = [result EXCEPT ![s].attempts = attempt,
                                                           ![s].success = TRUE,
                                                           ![s].path = FilePath(s)]
                               /\ pc' = [pc EXCEPT ![s] = "ret"]
                          ELSE /\ fs' = RemoveTemp(written, s)
                               /\ result' = [result EXCEPT ![s].attempts = attempt]
                               /\ pc' = [pc EXCEPT ![s] = AfterFailedAttempt(attempt)]
                     ELSE /\ fs' = written
                          /\ result' = [result EXCEPT ![s].attempts = attempt,
                                                      ![s].error = out.error]
                          /\ pc' = [pc EXCEPT ![s] = AfterFailedAttempt(attempt)]
    /\ UNCHANGED <<config, dirExists, run, mainVars, original_size, remote_hash, calls>>
    /\ UNCHANGED <<catVars, parseVars>>

\* ------------------------------------------------------------ the orchestrator
RECURSIVE Ascending(_)
Ascending(S) ==
    IF S = {} THEN <<>>
    ELSE LET m == CHOOSE x \in S : \A y \in S : x <= y
         IN <<m>> \o Ascending(S \ {m})

\* The lists the selection step of download() can produce: item numbers
\* without duplicates in ascending order.  The empty list is what download()
\* uses when no expression is given.
Selections == {Ascending(S) : S \in SUBSET Surahs}

\* How far download() gets before the fan-out: it returns early when the
\* catalogue is empty ("no reciters"), raises when the reciter is not found
\* or the expression is invalid, returns early when the user declines
\* (interactive mode), or goes on to the fan-out.  list: what the expression
\* of the invocation stands for (nothing, when it is invalid).
PreludeOutcomes ==
    {[step |-> "invalid selection", list |-> <<>>]}
    \cup {[step |-> st, list |-> l] :
             st \in {"no reciters", "reciter not found", "declined", "fanout"},
             l \in Selections}

\* surahs_to_download when download() ends or reaches the fan-out: the
\* selection is resolved only after the catalogue was fetched and the reciter
\* found.
Resolved(outcome) ==
    IF outcome.step \in {"declined", "fanout"} THEN outcome.list ELSE <<>>

\* Mutant of Submitted: the tasks are submitted wherever download() ends.
Submitted_Regardless(outcome) == outcome.list

\* The items download() submits to the executor: those of the resolved list,
\* when it reaches the fan-out.
Submitted(outcome) == IF outcome.step = "fanout" THEN outcome.list ELSE <<>>

Selected == {selection[k] : k \in 1..Len(selection)}

\* summary = {'reciter': None, 'total': 0, 'success': 0, 'failed': 0, 'errors': [], ...}
NewSummary ==
    [reciter |-> None, total |-> 0, success |-> 0, failed |-> 0,
     errors |-> <<>>, error |-> None]

\* A call of _download_surah is neither finished nor waiting for a worker.
Running(s) == pc[s] = "attempt"
Finished(s) == pc[s] \in {"ret", "raised"}

\* Mutant of WorkerFree: one task more than there are workers may run.
WorkerFree_OneMore == Cardinality({s \in Surahs : Running(s)}) <= max_workers

\* ThreadPoolExecutor(max_workers): a queued task starts only on a free worker.
WorkerFree == Cardinality({s \in Surahs : Running(s)}) < max_workers

\* Mutant of NextQueued: a task whose fetch failed is queued again.
NextQueued_Retry(s) ==
    \/ pc[s] = "queued"
    \/ Finished(s) /\ ~result[s].success /\ collected[s] = 0 /\ s \in Selected

\* The executor's work queue is first in, first out.
NextQueued(s) ==
    \E k \in 1..Len(selection) :
        /\ selection[k] = s
        /\ pc[s] = "queued"
        /\ \A j \in 1..(k - 1) : pc[selection[j]] # "queued"

\* as_completed yields every future once.
MarkCollected(c, s) == [c EXCEPT ![s] = @ + 1]

\* Mutant of Aggregate: the except clause does not count the item as failed.
Aggregate_ExceptUncounted(sm, s) ==
    IF pc[s] = "raised"
    THEN [sm EXCEPT !.errors = Append(@, [surah |-> s, msg |-> "Error: makedirs"])]
    ELSE IF result[s].success
    THEN [sm EXCEPT !.success = @ + 1]
    ELSE [sm EXCEPT !.failed = @ + 1,
                    !.errors = Append(@, [surah |-> s,
                                          msg |-> IF result[s].error # None
                                                  THEN result[s].error
                                                  ELSE "Unknown error"])]

\* Mutant of Aggregate: an item whose fetch raised is counted, not listed.
Aggregate_RaisedUnlisted(sm, s) ==
    IF pc[s] = "raised"
    THEN [sm EXCEPT !.failed = @ + 1]
    ELSE IF result[s].success
    THEN [sm EXCEPT !.success = @ + 1]
    ELSE [sm EXCEPT !.failed = @ + 1,
                    !.errors = Append(@, [surah |-> s,
                                          msg |-> IF result[s].error # None
                                                  THEN result[s].error
                                                  ELSE "Unknown error"])]

\* Mutant of Aggregate: the two counters are taken for each other.
Aggregate_Swapped(sm, s) ==
    IF pc[s] = "raised"
    THEN [sm EXCEPT !.failed = @ + 1,
                    !.errors = Append(@, [surah |-> s, msg |-> "Error: makedirs"])]
    ELSE IF result[s].success
    THEN [sm EXCEPT !.failed = @ + 1]
    ELSE [sm EXCEPT !.success = @ + 1,
                    !.errors = Append(@, [surah |-> s,
                                          msg |-> IF result[s].error # None
                                                  THEN result[s].error
                                                  ELSE "Unknown error"])]

\* The body of the as_completed loop for one finished future.
Aggregate(sm, s) ==
    IF pc[s] = "raised"
    THEN [sm EXCEPT !.failed = @ + 1,
                    !.errors = Append(@, [surah |-> s, msg |-> "Error: makedirs"])]
    ELSE IF result[s].success
    THEN [sm EXCEPT !.success = @ + 1]
    ELSE [sm EXCEPT !.failed = @ + 1,
                    !.errors = Append(@, [surah |-> s,
                                          msg |-> IF result[s].error # None
                                                  THEN result[s].error
                                                  ELSE "Unknown error"])]

\* download() from its entry to the submission of the tasks: the catalogue is
\* fetched, the reciter matched, the selection resolved, the confirmation asked
\* (interactive mode), and one task per selected item submitted.
Download ==
    /\ mainpc # "fanout"
    /\ run < MaxRuns
    /\ run' = run + 1
    /\ \E outcome \in PreludeOutcomes :
         LET submitted == Submitted(outcome)
         IN /\ mainpc' = outcome.step
            /\ summary' = CASE outcome.step = "no reciters" ->
                                 [NewSummary EXCEPT !.error = "No reciters found"]
                            [] outcome.step = "reciter not found" -> NewSummary
                            [] outcome.step = "invalid selection" ->
                                 [NewSummary EXCEPT !.reciter = "Test Reciter 1"]
                            [] OTHER ->
                                 [NewSummary EXCEPT !.reciter = "Test Reciter 1",
                                                    !.total = Len(Resolved(outcome))]
            /\ selection' = Resolved(outcome)
            /\ pc' = [s \in Surahs |->
                        IF \E k \in 1..Len(submitted) : submitted[k] = s
                        THEN "queued" ELSE "idle"]
    /\ result' = [s \in Surahs |-> NewResult(s)]
    /\ original_size' = [s \in Surahs |-> 0]
    /\ remote_hash' = [s \in Surahs |-> 0]
    /\ calls' = [s \in Surahs |-> 0]
    /\ collected' = [s \in Surahs |-> 0]
    /\ requests' = [s \in Surahs |-> 0]
    /\ lastRange' = [s \in Surahs |-> -1]
    /\ lastEnd' = [s \in Surahs |-> NoTransfer]
    /\ UNCHANGED <<config, dirExists, fs, catVars, parseVars>>

\* A worker thread takes the next task and runs _download_surah up to its
\* retry loop.
StartWork(s) ==
    /\ mainpc = "fanout"
    /\ NextQueued(s)
    /\ WorkerFree
    /\ DownloadSurahEntry(s)
    /\ UNCHANGED <<config, run, mainVars, catVars, parseVars>>

\* The main thread takes one finished future from as_completed.
Collect(s) ==
    /\ mainpc = "fanout"
    /\ Finished(s)
    /\ collected[s] = 0
    /\ summary' = Aggregate(summary, s)
    /\ collected' = MarkCollected(collected, s)
    /\ UNCHANGED <<config, dirExists, fs, run, mainpc, selection, pc, result,
                   original_size, remote_hash, calls,
                   requests, lastRange, lastEnd, catVars, parseVars>>

\* as_completed is exhausted, the executor shuts down, download() returns.
Finish ==
    /\ mainpc = "fanout"
    /\ \A s \in Selected : collected[s] >= 1
    /\ mainpc' = "returned"
    /\ UNCHANGED <<config, dirExists, fs, run, selection, summary, pc, result,
                   original_size, remote_hash, calls,
                   collected, requests, lastRange, lastEnd, catVars, parseVars>>

\* _download_surah called directly, outside download().
CallFetch(s) ==
    /\ mainpc = "direct"
    /\ pc[s] \in {"idle", "ret", "raised"}
    /\ run < MaxRuns
    /\ run' = run + 1
    /\ DownloadSurahEntry(s)
    /\ UNCHANGED <<config, mainVars, catVars, parseVars>>

\* ------------------------------------------------------------ the selection parser
\* An expression is a sequence of characters.  The expressions given to the
\* parser are made of at most MaxExprLen of these symbols.
ExprSymbols ==
    {<<"0">>, <<"1">>, <<"4">>, <<"5">>, <<"-">>, <<",">>,
     <<"a", "l", "l">>, <<"A", "l", "L">>, <<"x">>}

RECURSIVE Words(_)
Words(n) ==
    IF n = 0 THEN {<<>>}
    ELSE LET shorter == Words(n - 1)
         IN shorter \cup {w \o s : w \in shorter, s \in ExprSymbols}

Exprs == Words(MaxExprLen)

\* What parse_surah_selection did: nothing yet, returned a list, or raised
\* ValueError.
NotParsed == [called |-> FALSE, ok |-> FALSE, list |-> <<>>]
ParsedList(l) == [called |-> TRUE, ok |-> TRUE, list |-> l]
ParseError == [called |-> TRUE, ok |-> FALSE, list |-> <<>>]

\* str.lower()
Lower(e) ==
    [k \in 1..Len(e) |-> IF e[k] = "A" THEN "a" ELSE IF e[k] = "L" THEN "l" ELSE e[k]]

\* c in selection
Contains(e, c) == \E k \in 1..Len(e) : e[k] = c

\* str.split(sep): the parts between the separators, empty ones included.
RECURSIVE Split(_, _)
Split(e, sep) ==
    IF ~Contains(e, sep) THEN <<e>>
    ELSE LET k == CHOOSE i \in 1..Len(e) :
                    e[i] = sep /\ \A j \in 1..(i - 1) : e[j] # sep
         IN <<SubSeq(e, 1, k - 1)>> \o Split(SubSeq(e, k + 1, Len(e)), sep)

DigitChars == {"0", "1", "2", "3", "4", "5", "6", "7", "8", "9"}
DigitValue(c) ==
    CASE c = "0" -> 0 [] c = "1" -> 1 [] c = "2" -> 2 [] c = "3" -> 3
      [] c = "4" -> 4 [] c = "5" -> 5 [] c = "6" -> 6 [] c = "7" -> 7
      [] c = "8" -> 8 [] OTHER -> 9

AllDigits(tok) == tok # <<>> /\ \A k \in 1..Len(tok) : tok[k] \in DigitChars

RECURSIVE Decimal(_)
Decimal(tok) ==
    IF tok = <<>> THEN 0
    ELSE 10 * Decimal(SubSeq(tok, 1, Len(tok) - 1)) + DigitValue(tok[Len(tok)])

\* int(s): an optional sign and decimal digits (the expressions here hold no
\* blank, "+" or "_"); anything else raises ValueError.
IntOf(tok) ==
    IF AllDigits(tok) THEN [ok |-> TRUE, val |-> Decimal(tok)]
    ELSE IF tok # <<>> /\ tok[1] = "-" /\ AllDigits(Tail(tok))
    THEN [ok |-> TRUE, val |-> 0 - Decimal(Tail(tok))]
    ELSE [ok |-> FALSE, val |-> 0]

\* list(range(a, b + 1))
RangeList(a, b) == [k \in 1..(b - a + 1) |-> a + k - 1]

\* Mutant of IsAll: the expression is not lower-cased.
IsAll_CaseSensitive(e) == e = <<"a", "l", "l">>

\* selection.lower() == 'all'
IsAll(e) == Lower(e) = <<"a", "l", "l">>

\* The range branch: start, end = map(int, selection.split('-')), which
\* raises ValueError unless there are exactly two parts and both are integers.
ParseRange(e) ==
    LET parts == Split(e, "-")
    IN IF Len(parts) # 2 THEN ParseError
       ELSE LET start == IntOf(parts[1])
                end == IntOf(parts[2])
            IN IF start.ok /\ end.ok
                  /\ 1 <= start.val /\ start.val <= end.val /\ end.val <= LastSurah
               THEN ParsedList(RangeList(start.val, end.val))
               ELSE ParseError

\* Mutant of ParseList: the numbers are returned as they were written.
ParseList_AsWritten(e) ==
    LET parts == Split(e, ",")
        tokens == SelectSeq(parts, LAMBDA s : s # <<>>)
    IN IF \A k \in 1..Len(tokens) :
             IntOf(tokens[k]).ok /\ IntOf(tokens[k]).val \in 1..LastSurah
       THEN ParsedList([k \in 1..Len(tokens) |-> IntOf(tokens[k]).val])
       ELSE ParseError

\* The comma branch: the set of int(s) over the non-empty parts, sorted when
\* all are in 1..114.
ParseList(e) ==
    LET parts == Split(e, ",")
        tokens == SelectSeq(parts, LAMBDA s : s # <<>>)
    IN IF \A k \in 1..Len(tokens) : IntOf(tokens[k]).ok
       THEN LET surahs == {IntOf(tokens[k]).val : k \in 1..Len(tokens)}
            IN IF \A s \in surahs : 1 <= s /\ s <= LastSurah
               THEN ParsedList(Ascending(surahs))
               ELSE ParseError
       ELSE ParseError

\* The single number branch.
ParseSingle(e) ==
    LET surah == IntOf(e)
    IN IF surah.ok /\ 1 <= surah.val /\ surah.val <= LastSurah
       THEN ParsedList(<<surah.val>>)
       ELSE ParseError

\* parse_surah_selection(selection)
ParseSurahSelection(e) ==
    IF IsAll(e) THEN ParsedList(RangeList(1, LastSurah))
    ELSE IF Contains(e, "-") THEN ParseRange(e)
    ELSE IF Contains(e, ",") THEN ParseList(e)
    ELSE ParseSingle(e)

\* A call of parse_surah_selection on the expression.
ParseSelection ==
    /\ ~parsed.called
    /\ parsed' = ParseSurahSelection(expr)
    /\ UNCHANGED <<expr, catVars, downloadVars, calls, collected>>

\* ------------------------------------------------------------ the catalogue client
\* self.reciters_cache: None, or the stored list.
NoCache == [none |-> TRUE, value |-> <<>>]
Cached(v) == [none |-> FALSE, value |-> v]

\* The reciter names of the remote catalogue, and x['name'].lower() as its
\* place in the order of strings: "alafasy" < "zaid", while "Zaid" < "alafasy".
Reciters == {"Zaid", "alafasy"}
LowerKey(n) == IF n = "alafasy" THEN 1 ELSE 2

\* sorted(response.json(), key=lambda x: x['name'].lower())
RECURSIVE SortedByName(_)
SortedByName(l) ==
    IF l = <<>> THEN <<>>
    ELSE LET k == CHOOSE i \in 1..Len(l) :
                    \A j \in 1..Len(l) :
                        \/ LowerKey(l[i]) < LowerKey(l[j])
                        \/ LowerKey(l[i]) = LowerKey(l[j]) /\ i <= j
         IN <<l[k]>> \o SortedByName(SubSeq(l, 1, k - 1) \o SubSeq(l, k + 1, Len(l)))

\* What the catalogue endpoint can answer: the request fails or has a
\* non-success status ("error"), the payload is not a list of reciters
\* ("malformed"), or it is a list, which may be empty.
CatalogueAnswers ==
    {[kind |-> k, list |-> <<>>] : k \in {"error", "malformed"}}
    \cup {[kind |-> "ok", list |-> l] :
             l \in {<<>>, <<"alafasy">>, <<"Zaid", "alafasy">>}}

\* What a get_reciters call gives its caller: a list (it raises nothing).
Returned(v) == [raised |-> FALSE, value |-> v]

\* Mutant of CacheFresh: the age of the cache is not looked at.
CacheFresh_NoExpiry(force) ==
    /\ ~force
    /\ ~reciters_cache.none /\ reciters_cache.value # <<>>

\* not force_refresh and self.reciters_cache and
\* (current_time - self.reciters_cache_time) < self.cache_expiry
CacheFresh(force) ==
    /\ ~force
    /\ ~reciters_cache.none /\ reciters_cache.value # <<>>
    /\ now - reciters_cache_time < CacheExpiry

\* get_reciters(force_refresh)
GetReciters(force) ==
    /\ IF CacheFresh(force)
       THEN /\ lastCall' = [force |-> force, answer |-> "none",
                            returned |-> Returned(reciters_cache.value),
                            requests |-> 0, seq |-> 1 - lastCall.seq]
            /\ UNCHANGED <<reciters_cache, reciters_cache_time>>
       ELSE \E ans \in CatalogueAnswers :
              IF ans.kind = "ok"
              THEN LET reciters == SortedByName(ans.list)
                   IN /\ reciters_cache' = Cached(reciters)
                      /\ reciters_cache_time' = now
                      /\ lastCall' = [force |-> force, answer |-> "ok",
                                      returned |-> Returned(reciters),
                                      requests |-> 1, seq |-> 1 - lastCall.seq]
              ELSE \* except Exception: print, return []
                   /\ lastCall' = [force |-> force, answer |-> ans.kind,
                                   returned |-> Returned(<<>>),
                                   requests |-> 1, seq |-> 1 - lastCall.seq]
                   /\ UNCHANGED <<reciters_cache, reciters_cache_time>>
    /\ UNCHANGED <<now, downloadVars, calls, collected, parseVars>>

\* Time passes between two calls.
Tick ==
    /\ now < MaxTime
    /\ now' = now + 1
    /\ UNCHANGED <<reciters_cache, reciters_cache_time, lastCall,
                   downloadVars, calls, collected, parseVars>>

\* ------------------------------------------------------------ specifications
InitTasks ==
    /\ run = 0
    /\ selection = <<>>
    /\ summary = NewSummary
    /\ pc = [s \in Surahs |-> "idle"]
    /\ result = [s \in Surahs |-> NewResult(s)]
    /\ original_size = [s \in Surahs |-> 0]
    /\ remote_hash = [s \in Surahs |-> 0]
    /\ calls = [s \in Surahs |-> 0]
    /\ collected = [s \in Surahs |-> 0]
    /\ requests = [s \in Surahs |-> 0]
    /\ lastRange = [s \in Surahs |-> -1]
    /\ lastEnd = [s \in Surahs |-> NoTransfer]

\* No get_reciters call was made.
NoCall ==
    [force |-> FALSE, answer |-> "none", returned |-> Returned(<<>>),
     requests |-> 0, seq |-> 0]

\* The catalogue client after __init__.
InitCatalogue ==
    /\ reciters_cache = NoCache
    /\ reciters_cache_time = 0
    /\ now = 0
    /\ lastCall = NoCall

\* No expression was given to the parser.
InitParser ==
    /\ expr = <<>>
    /\ parsed = NotParsed

\* download() on a fresh output directory, then again on what it left.  Every
\* item's remote is good or down, or one is flaky and the others are good.
Init ==
    /\ max_workers \in 1..MaxWorkers
    /\ max_retries \in 0..MaxRetries
    /\ remote \in [Surahs -> {"good", "down", "flaky"}]
    /\ \A s \in Surahs :
         remote[s] = "flaky" => \A o \in Surahs \ {s} : remote[o] = "good"
    /\ exposesMd5 \in BOOLEAN
    /\ dirExists = FALSE
    /\ fs = [p \in Paths |-> NoFile]
    /\ mainpc = "idle"
    /\ InitTasks
    /\ InitCatalogue
    /\ InitParser

Next ==
    \/ Download
    \/ \E s \in Surahs : StartWork(s)
    \/ \E s \in Surahs : Attempt(s)
    \/ \E s \in Surahs : Collect(s)
    \/ Finish

Spec == Init /\ [][Next]_vars

\* The last invocation of download() of a process, over a directory in which
\* earlier ones left any of the items downloaded.
InitLive ==
    /\ max_workers \in 1..MaxWorkers
    /\ max_retries \in 0..MaxRetries
    /\ remote \in [Surahs -> {"good", "down", "flaky"}]
    /\ \A s \in Surahs :
         remote[s] = "flaky" => \A o \in Surahs \ {s} : remote[o] = "good"
    /\ exposesMd5 = FALSE
    /\ \E have \in SUBSET Surahs :
         /\ fs = [p \in Paths |->
                   IF \E s \in have : p = FilePath(s) THEN File(Content) ELSE NoFile]
         /\ dirExists = (have # {})
    /\ mainpc = "idle"
    /\ selection = <<>>
    /\ summary = NewSummary
    /\ pc = [s \in Surahs |-> "idle"]
    /\ result = [s \in Surahs |-> NewResult(s)]
    /\ original_size = [s \in Surahs |-> 0]
    /\ remote_hash = [s \in Surahs |-> 0]
    /\ calls = [s \in Surahs |-> 0]
    /\ collected = [s \in Surahs |-> 0]
    /\ requests = [s \in Surahs |-> 0]
    /\ lastRange = [s \in Surahs |-> -1]
    /\ lastEnd = [s \in Surahs |-> NoTransfer]
    /\ run = MaxRuns - 1
    /\ InitCatalogue
    /\ InitParser

\* What keeps an invocation going: the executor gives a queued task to a free
\* worker, every request of a running fetch returns or times out
\* (timeout=self.timeout), the main thread takes finished futures and leaves
\* the with block when there are no more.  Nothing obliges the caller to call
\* download().
SpecLive ==
    /\ InitLive
    /\ [][Next]_vars
    /\ \A s \in Surahs : WF_vars(StartWork(s))
    /\ \A s \in Surahs : WF_vars(Attempt(s))
    /\ \A s \in Surahs : WF_vars(Collect(s))
    /\ WF_vars(Finish)

\* The caller aborts the invocation during the fan-out: KeyboardInterrupt is
\* raised in the main thread, which waits in as_completed.  No except clause
\* of download() catches it (they catch Exception), so it leaves the with
\* block of the executor.
Interrupt ==
    /\ mainpc = "fanout"
    /\ mainpc' = "interrupted"
    /\ UNCHANGED <<config, dirExists, fs, run, selection, summary, pc, result,
                   original_size, remote_hash, calls,
                   collected, requests, lastRange, lastEnd, catVars, parseVars>>

\* Leaving the with block calls executor.shutdown(wait=True) without
\* cancel_futures: the workers go on taking the submitted tasks off the queue.
Shutdown(s) ==
    /\ mainpc = "interrupted"
    /\ NextQueued(s)
    /\ WorkerFree
    /\ DownloadSurahEntry(s)
    /\ UNCHANGED <<config, run, mainVars, catVars, parseVars>>

\* Every worker has ended: shutdown returns and the interrupt leaves download().
Propagate ==
    /\ mainpc = "interrupted"
    /\ \A s \in Selected : Finished(s)
    /\ mainpc' = "aborted"
    /\ UNCHANGED <<config, dirExists, fs, run, selection, summary, pc, result,
                   original_size, remote_hash, calls,
                   collected, requests, lastRange, lastEnd, catVars, parseVars>>

NextAbort ==
    \/ Next
    \/ Interrupt
    \/ \E s \in Surahs : Shutdown(s)
    \/ Propagate

\* One invocation of download() that the caller may abort during the fan-out.
SpecAbort == InitLive /\ [][NextAbort]_vars

\* The files an earlier process may have left: a destination file that is
\* absent, empty, the item, of the item's size with other content, or shorter;
\* a temporary file that is absent, a prefix of the item (empty and whole
\* included), a prefix with other content, or longer than the item.
Prefixes == {SubSeq(Content, 1, k) : k \in 0..FileSize}
LeftDest ==
    {NoFile, File(<<>>), File(Content), File(Flip(Content)),
     File(SubSeq(Content, 1, FileSize - 1))}
LeftTemp ==
    {NoFile} \cup {File(x) : x \in Prefixes} \cup {File(Flip(x)) : x \in Prefixes}
    \cup {File(Append(Content, 1))}

\* _download_surah called directly for item 1, over any files an earlier
\* process may have left at its two paths.
InitFetch ==
    /\ max_workers = 1
    /\ max_retries \in 0..MaxRetries
    /\ remote \in [Surahs -> RemoteKinds]
    /\ \A s \in Surahs : s # 1 => remote[s] = "good"
    /\ exposesMd5 \in BOOLEAN
    /\ dirExists \in BOOLEAN
    /\ \E d \in LeftDest, t \in LeftTemp :
         fs = [p \in Paths |-> IF p = FilePath(1) THEN d
                               ELSE IF p = TempPath(1) THEN t ELSE NoFile]
    /\ (fs[FilePath(1)].exists \/ fs[TempPath(1)].exists) => dirExists
    /\ mainpc = "direct"
    /\ InitTasks
    /\ InitCatalogue
    /\ InitParser

NextFetch ==
    \/ CallFetch(1)
    \/ Attempt(1)

SpecFetch == InitFetch /\ [][NextFetch]_vars

\* A downloader that downloads nothing.
InitIdle ==
    /\ max_workers = 1
    /\ max_retries = 0
    /\ remote = [s \in Surahs |-> "good"]
    /\ exposesMd5 = FALSE
    /\ dirExists = FALSE
    /\ fs = [p \in Paths |-> NoFile]
    /\ mainpc = "idle"
    /\ InitTasks

\* get_reciters called any number of times, with and without force_refresh,
\* at any distance in time, against any answers of the catalogue endpoint.
InitCatalogueClient == InitIdle /\ InitCatalogue /\ InitParser

NextCatalogue ==
    \/ \E force \in BOOLEAN : GetReciters(force)
    \/ Tick

SpecCatalogue == InitCatalogueClient /\ [][NextCatalogue]_vars

\* parse_surah_selection called on any expression.
InitParse ==
    /\ InitIdle
    /\ InitCatalogue
    /\ expr \in Exprs
    /\ parsed = NotParsed

NextParse == ParseSelection

SpecParse == InitParse /\ [][NextParse]_vars

\* ------------------------------------------------------------ properties
Succeeded(s) == pc[s] = "ret" /\ result[s].success
Failed(s) == Finished(s) /\ ~Succeeded(s)

\* C1: when the fan-out has completed, success + failed = total, and total is
\* the number of selected items, whatever the outcomes of the items were.
C1_SummaryAddsUp ==
    mainpc = "returned" =>
        /\ summary.success + summary.failed = summary.total
        /\ summary.total = Len(selection)

\* C1 witness: a completed fan-out over two items, one succeeded, one failed.
C1_Witness ==
    /\ mainpc = "returned"
    /\ summary.total = 2
    /\ summary.success = 1
    /\ summary.failed = 1

\* An item that nothing of its own keeps from succeeding: its remote serves it
\* correctly, its directory could be made, and the engine makes an attempt.
Served(s) == remote[s] = "good" /\ pc[s] # "raised" /\ max_retries >= 1

\* C2: isolation.  When a fan-out with a failing item has completed, every
\* selected item was dispatched and collected, and every other item whose
\* remote serves it correctly (whose directory could be made, with at least
\* one attempt configured) ended in success and is counted in the summary;
\* and download() never raises once the fan-out has begun.
C2_Isolation ==
    /\ [](mainpc = "returned" /\ (\E f \in Selected : Failed(f)) =>
            /\ \A s \in Selected : calls[s] = 1 /\ collected[s] = 1
            /\ \A s \in Selected : Served(s) => Succeeded(s)
            /\ summary.success >= Cardinality({s \in Selected : Served(s)}))
    /\ [][mainpc = "fanout" => mainpc' \in {"fanout", "returned"}]_vars

\* C2 witness: a completed fan-out in which the item of a failing remote failed
\* by result and the item of a good remote succeeded after a transfer.
C2_Witness ==
    /\ mainpc = "returned"
    /\ \E f, s \in Selected :
         /\ remote[f] # "good" /\ pc[f] = "ret" /\ ~result[f].success
         /\ remote[s] = "good" /\ Succeeded(s) /\ result[s].attempts = 1
         /\ summary.success = 1

\* C3: the calls of _download_surah that have started and not returned are
\* never more than max_workers.
C3_ConcurrencyBound == Cardinality({s \in Surahs : Running(s)}) <= max_workers

\* C3 witness: every worker is busy while another task waits in the queue.
C3_Witness ==
    /\ Cardinality({s \in Surahs : Running(s)}) = max_workers
    /\ \E s \in Surahs : pc[s] = "queued"

\* C4: in one invocation every selected item is dispatched at most once and
\* adds at most one outcome to the summary, no other item is dispatched, and
\* at completion each selected item was dispatched and collected exactly once.
C4_ExactlyOnce ==
    /\ \A s \in Surahs : calls[s] <= 1 /\ collected[s] <= 1
    /\ \A s \in Surahs \ Selected : calls[s] = 0 /\ collected[s] = 0
    /\ mainpc \in {"fanout", "returned"} =>
          summary.success + summary.failed
              = Cardinality({s \in Selected : collected[s] >= 1})
    /\ mainpc = "returned" => \A s \in Selected : calls[s] = 1 /\ collected[s] = 1

\* C4 witness: a completed fan-out with an item that failed after its retries
\* were used up, and was dispatched once.
C4_Witness ==
    /\ mainpc = "returned"
    /\ \E s \in Selected :
         /\ Failed(s) /\ calls[s] = 1 /\ collected[s] = 1
         /\ max_retries >= 2 /\ result[s].attempts = max_retries

\* C5 (as claimed): _download_surah never raises to its caller.
C5_NeverRaises == \A s \in Surahs : pc[s] # "raised"

\* The step is a transfer attempt of item s.
AttemptStep(s) == requests'[s] = requests[s] + 1

\* The step is the entry of a call of _download_surah for item s.
EntryStep(s) == calls'[s] = calls[s] + 1

\* File g holds the content of file f followed by n more chunks.
Extends(g, f, n) ==
    /\ g.exists
    /\ Len(g.data) = Len(f.data) + n
    /\ SubSeq(g.data, 1, Len(f.data)) = f.data

\* C6 (as claimed): after a transport error during a transfer attempt, fresh
\* or resumed, the temporary file is in place with the bytes written so far.
C6_TempKeptOnError ==
    [][\A s \in Surahs :
          AttemptStep(s) /\ lastEnd'[s].how = "broken" =>
              /\ fs'[TempPath(s)].exists
              /\ Len(fs'[TempPath(s)].data) = lastRange'[s] + lastEnd'[s].written]_vars

\* C6 (amended): after a transport error during a resumed transfer attempt the
\* temporary file is in place, holding what it held plus the chunks written
\* by the attempt; after a transport error during an attempt that started
\* fresh there is no temporary file.  Every attempt starts from the length of
\* the temporary file it finds (0 when there is none).
C6_TempKeptOnResumedError ==
    [][\A s \in Surahs :
          AttemptStep(s) =>
              /\ lastRange'[s] = IF fs[TempPath(s)].exists
                                 THEN Len(fs[TempPath(s)].data) ELSE 0
              /\ lastEnd'[s].how \in {"broken", "refused"} =>
                    IF lastRange'[s] > 0
                    THEN Extends(fs'[TempPath(s)], fs[TempPath(s)], lastEnd'[s].written)
                    ELSE fs'[TempPath(s)] = NoFile]_vars

\* C6 witness: a resumed attempt broke after writing, the temporary file holds
\* the longer prefix, and another attempt is to follow.
C6_Witness ==
    /\ pc[1] = "attempt"
    /\ lastEnd[1].how = "broken"
    /\ lastEnd[1].written >= 1
    /\ lastRange[1] >= 1
    /\ fs[TempPath(1)].exists
    /\ Len(fs[TempPath(1)].data) = lastRange[1] + lastEnd[1].written

\* C7: an attempt that finds a temporary file of N chunks, 0 < N < expected
\* size, asks for the bytes from N on; what it receives is appended to the
\* temporary file; and when it succeeds the published file is the old
\* temporary file followed by the received chunks, of the expected size.
C7_Resume ==
    [][\A s \in Surahs :
          /\ AttemptStep(s)
          /\ fs[TempPath(s)].exists
          /\ 0 < Len(fs[TempPath(s)].data)
          /\ Len(fs[TempPath(s)].data) < original_size[s]
          => /\ lastRange'[s] = Len(fs[TempPath(s)].data)
             /\ lastEnd'[s].how \in {"broken", "disk full"} =>
                   Extends(fs'[TempPath(s)], fs[TempPath(s)], lastEnd'[s].written)
             /\ result'[s].success =>
                   /\ Extends(fs'[FilePath(s)], fs[TempPath(s)], lastEnd'[s].written)
                   /\ Len(fs'[FilePath(s)].data) = original_size[s]]_vars

\* C7 witness: a fetch succeeded by a resumed transfer that received the
\* missing chunks only.
C7_Witness ==
    /\ Succeeded(1)
    /\ 0 < lastRange[1] /\ lastRange[1] < FileSize
    /\ lastEnd[1] = [how |-> "received", written |-> FileSize - lastRange[1]]
    /\ fs[FilePath(1)] = File(Content)

\* C8: the destination file changes only in a successful attempt, to the
\* temporary file that has just passed the verification (the expected size,
\* and the remote hash when there is one), which is gone afterwards; so a
\* fetch that succeeded after a transfer left a file of the item's size (the
\* item itself when the remote gives a hash) at the destination path.
C8_PublishOnlyVerified ==
    /\ [][\A s \in Surahs :
            fs'[FilePath(s)] # fs[FilePath(s)] =>
                /\ AttemptStep(s)
                /\ result'[s].success
                /\ fs'[TempPath(s)] = NoFile
                /\ fs'[FilePath(s)].exists
                /\ Len(fs'[FilePath(s)].data) = original_size[s]
                /\ remote_hash[s] # 0 =>
                      FileHash(fs'[FilePath(s)].data) = remote_hash[s]]_vars
    /\ [](\A s \in Surahs :
            Succeeded(s) /\ result[s].attempts >= 1 =>
                /\ fs[FilePath(s)].exists
                /\ Len(fs[FilePath(s)].data) = FileSize
                /\ exposesMd5 => fs[FilePath(s)].data = Content)

\* C8 witness: a fetch succeeded on its second attempt, after a first one
\* whose transfer did not pass, and published the item.
C8_Witness ==
    /\ Succeeded(1)
    /\ result[1].attempts = 2
    /\ lastEnd[1].how = "received"
    /\ fs[FilePath(1)] = File(Content)
    /\ fs[TempPath(1)] = NoFile

\* The destination file of item s has the size the remote declares, and its
\* checksum when the remote gives one.
DestValid(s) ==
    /\ fs[FilePath(s)].exists
    /\ Len(fs[FilePath(s)].data) = FileSize
    /\ exposesMd5 => FileHash(fs[FilePath(s)].data) = FileHash(Content)

\* C9: a call of _download_surah that finds a valid destination file, with the
\* remote answering the size query as before, returns success with attempts =
\* 0, issues no transfer request and leaves every file as it was.
C9_Idempotent ==
    /\ [][\A s \in Surahs :
            EntryStep(s) /\ DestValid(s) /\ remote[s] = "good" =>
                /\ pc'[s] = "ret"
                /\ result'[s].success
                /\ result'[s].attempts = 0
                /\ requests'[s] = 0
                /\ fs' = fs]_vars
    /\ [](\A s \in Surahs : Succeeded(s) /\ result[s].attempts = 0 => requests[s] = 0)

\* C9 witness: the second invocation over two items completed with success
\* and attempts = 0 for both, without a transfer request.
C9_Witness ==
    /\ run = 2
    /\ mainpc = "returned"
    /\ Len(selection) = 2
    /\ summary.success = 2
    /\ \A s \in Selected :
         Succeeded(s) /\ result[s].attempts = 0 /\ requests[s] = 0 /\ DestValid(s)

\* C10 (as claimed): every returned result has a path iff success is true and
\* an error description iff success is false.
C10_PathAndErrorMatchSuccess ==
    \A s \in Surahs :
        pc[s] = "ret" =>
            /\ (result[s].path # None) <=> result[s].success
            /\ (result[s].error # None) <=> ~result[s].success

\* The fetch of item s returned after its retry loop ran without a success.
Exhausted(s) == pc[s] = "ret" /\ ~result[s].success /\ result[s].attempts >= 1

\* C11 (as claimed): a fetch whose attempts all ended without success returns
\* attempts = max_retries and the error description of its last attempt: that
\* of the transport error when the last transfer raised, and one of the
\* mismatch (so neither absent nor that of an earlier transport error) when
\* the last transfer was received and failed the verification.
C11_LastErrorReported ==
    \A s \in Surahs :
        Exhausted(s) =>
            /\ result[s].attempts = max_retries
            /\ lastEnd[s].how \in {"refused", "broken"} => result[s].error = "ConnectionError"
            /\ lastEnd[s].how = "disk full" => result[s].error = "OSError"
            /\ lastEnd[s].how = "received" =>
                  result[s].error \notin {None, "ConnectionError", "OSError"}

\* The size of item s cannot be determined: both requests of the size query
\* fail, or no content-length is declared.
SizeUnavailable(s) == remote[s] \in {"down", "nosize"}

\* C12 (as claimed): a call of _download_surah that gets past the directory and finds the
\* size unavailable returns failure with attempts = 0 and the size error,
\* issues no transfer request and leaves every file as it was; and no transfer
\* request is ever issued without a declared size other than 0.
C12_SizeUnavailable ==
    /\ [][\A s \in Surahs :
            EntryStep(s) /\ SizeUnavailable(s) /\ pc'[s] # "raised" =>
                /\ pc'[s] = "ret"
                /\ ~result'[s].success
                /\ result'[s].attempts = 0
                /\ result'[s].error =
                      (IF remote[s] = "down" THEN "Failed to get file info"
                       ELSE "Invalid file size (0 bytes)")
                /\ requests'[s] = 0
                /\ fs' = fs]_vars
    /\ [](\A s \in Surahs :
            /\ requests[s] >= 1 => original_size[s] # 0
            /\ pc[s] = "attempt" => original_size[s] # 0
            /\ pc[s] = "ret" /\ result[s].error = "Invalid file size (0 bytes)" =>
                   requests[s] = 0 /\ result[s].attempts = 0 /\ ~result[s].success)

\* download() ended before the fan-out on a catalogue or selection error.
FailedFast ==
    mainpc \in {"no reciters", "reciter not found", "invalid selection"}

\* C16: when download() ends on an empty or failed catalogue, an unknown
\* reciter or an invalid expression, no item fetch was dispatched or queued,
\* no item request was issued, and the directory and its files are as the
\* invocation found them.
C16_FailFast ==
    /\ [](FailedFast =>
            \A s \in Surahs : pc[s] = "idle" /\ calls[s] = 0 /\ requests[s] = 0)
    /\ [][FailedFast' => fs' = fs /\ dirExists' = dirExists]_vars

\* C16 witness: a second invocation ended on an invalid expression, with the
\* file a first invocation downloaded in place.
C16_Witness ==
    /\ run = 2
    /\ mainpc = "invalid selection"
    /\ dirExists
    /\ fs[FilePath(1)] = File(Content)
    /\ \A s \in Surahs : pc[s] = "idle" /\ calls[s] = 0

\* C19: at every point of the collection, and so when the fan-out has
\* completed, success is the number of collected items whose fetch returned
\* success, failed the number of the other collected items (failure returned,
\* or raised), with one error entry for each of those.
C19_CountsMatchOutcomes ==
    mainpc \in {"fanout", "returned"} =>
        LET done == {s \in Selected : collected[s] >= 1}
        IN /\ summary.success = Cardinality({s \in done : Succeeded(s)})
           /\ summary.failed = Cardinality({s \in done : Failed(s)})
           /\ Len(summary.errors) = summary.failed
           /\ mainpc = "returned" => done = Selected

\* C19 witness: a first invocation over two items in which every fetch
\* succeeded by a transfer: success = 2, failed = 0.
C19_Witness ==
    /\ run = 1
    /\ mainpc = "returned"
    /\ Len(selection) = 2
    /\ \A s \in Selected : Succeeded(s) /\ result[s].attempts >= 1
    /\ summary.success = 2
    /\ summary.failed = 0

\* The remote of item s can declare the size (and checksum) that file f has.
Declares(s, f) ==
    /\ f.exists
    /\ \E info \in InfoResults(remote[s]) :
         /\ info.ok
         /\ Len(f.data) = info.size
         /\ info.hash # 0 => FileHash(f.data) = info.hash

\* C20: a call of _download_surah returns success with attempts = 0 only when
\* the destination file exists with the size (and checksum, when given) the
\* remote declares; when the file exists and does not match, or the remote
\* does not answer, the call does not succeed at its entry: it goes on to the
\* size query, and from there to the transfer or to the size error.
C20_FastPathSound ==
    /\ [][\A s \in Surahs :
            EntryStep(s) /\ pc'[s] # "raised" =>
                /\ result'[s].success =>
                      /\ Declares(s, fs[FilePath(s)])
                      /\ result'[s].attempts = 0
                      /\ pc'[s] = "ret"
                /\ fs[FilePath(s)].exists /\ ~Declares(s, fs[FilePath(s)]) =>
                      /\ ~result'[s].success
                      /\ \/ pc'[s] = "attempt" /\ original_size'[s] # 0
                         \/ pc'[s] = "ret" /\ result'[s].error # None
                         \/ pc'[s] = "ret" /\ max_retries = 0]_vars
    /\ [](\A s \in Surahs :
            Succeeded(s) /\ result[s].attempts = 0 => Declares(s, fs[FilePath(s)]))

\* C20 witness: a first call found the item at the destination path (and a
\* partial temporary file beside it) and returned success with attempts = 0,
\* without a transfer request.
C20_Witness ==
    /\ run = 1
    /\ Succeeded(1)
    /\ result[1].attempts = 0
    /\ requests[1] = 0
    /\ fs[FilePath(1)] = File(Content)
    /\ fs[TempPath(1)] = File(SubSeq(Content, 1, 1))

\* The step is a get_reciters call.
GetRecitersStep == lastCall'.seq # lastCall.seq

\* C13 (as claimed): a get_reciters call whose request errors or has a
\* non-success status raises to its caller.
C13_RaisesOnError == lastCall.answer = "error" => lastCall.returned.raised

\* C14 (as claimed): once a fetch has succeeded (the cache holds its
\* catalogue, whatever it is), a call without force_refresh made less than
\* cache_expiry after that fetch returns the stored catalogue without a
\* request, and a call with force_refresh or after that time issues exactly one.
C14_CacheServes ==
    [][GetRecitersStep /\ ~reciters_cache.none =>
          IF ~lastCall'.force /\ now - reciters_cache_time < CacheExpiry
          THEN /\ lastCall'.requests = 0
               /\ lastCall'.returned = Returned(reciters_cache.value)
          ELSE lastCall'.requests = 1]_vars

Tokens(e) ==
    UNION {{Split(p, "-")[j] : j \in 1..Len(Split(p, "-"))} :
              p \in {Split(e, ",")[i] : i \in 1..Len(Split(e, ","))}}

\* The word "all" in any letter case.
AnyCaseAll(e) ==
    /\ Len(e) = 3
    /\ e[1] \in {"a", "A"} /\ e[2] \in {"l", "L"} /\ e[3] \in {"l", "L"}

\* An invalid expression: the empty string; or, when it is not the word
\* "all", one with a non-numeric token, with a number outside 1..114, or a
\* range whose start is beyond its end.
InvalidExpr(e) ==
    \/ e = <<>>
    \/ /\ ~AnyCaseAll(e)
       /\ \/ \E tok \in Tokens(e) : tok # <<>> /\ ~AllDigits(tok)
          \/ \E tok \in Tokens(e) : AllDigits(tok) /\ Decimal(tok) \notin 1..LastSurah
          \/ /\ Len(Split(e, "-")) = 2
             /\ AllDigits(Split(e, "-")[1]) /\ AllDigits(Split(e, "-")[2])
             /\ Decimal(Split(e, "-")[1]) > Decimal(Split(e, "-")[2])

\* C17: a list returned by parse_surah_selection holds numbers of 1..114 in
\* strictly ascending order (so without duplicates), and on an invalid
\* expression the call raises instead of returning a list.
C17_ParseSound ==
    parsed.called =>
        /\ parsed.ok =>
              /\ \A k \in 1..Len(parsed.list) : parsed.list[k] \in 1..LastSurah
              /\ \A k \in 1..(Len(parsed.list) - 1) : parsed.list[k] < parsed.list[k + 1]
        /\ InvalidExpr(expr) => ~parsed.ok

\* C17 witness: "4,1" was parsed to the list 1, 4.
C17_Witness ==
    /\ expr = <<"4", ",", "1">>
    /\ parsed = ParsedList(<<1, 4>>)

\* The reference grammar, in its order: "all"; a range when there is a dash
\* and no comma; a comma list when there is a comma; a single number.
RefNumber(tok) ==
    IF AllDigits(tok) THEN Decimal(tok)
    ELSE IF tok # <<>> /\ tok[1] = "-" /\ AllDigits(Tail(tok)) THEN 0 - Decimal(Tail(tok))
    ELSE LastSurah + 1

RefParse(e) ==
    IF AnyCaseAll(e) THEN ParsedList([k \in 1..LastSurah |-> k])
    ELSE IF Contains(e, "-") /\ ~Contains(e, ",")
    THEN LET parts == Split(e, "-")
         IN IF /\ Len(parts) = 2
               /\ 1 <= RefNumber(parts[1])
               /\ RefNumber(parts[1]) <= RefNumber(parts[2])
               /\ RefNumber(parts[2]) <= LastSurah
            THEN ParsedList([k \in 1..(RefNumber(parts[2]) - RefNumber(parts[1]) + 1) |->
                                RefNumber(parts[1]) + k - 1])
            ELSE ParseError
    ELSE IF Contains(e, ",")
    THEN LET parts == Split(e, ",")
             members == {RefNumber(parts[i]) : i \in {j \in 1..Len(parts) : parts[j] # <<>>}}
         IN IF \A m \in members : m \in 1..LastSurah
            THEN ParsedList(Ascending(members))
            ELSE ParseError
    ELSE IF RefNumber(e) \in 1..LastSurah THEN ParsedList(<<RefNumber(e)>>)
    ELSE ParseError

\* C18: what parse_surah_selection does with an expression, the list or the
\* failure, is what the reference grammar gives for it.
C18_ParseMatchesGrammar == parsed.called => parsed = RefParse(expr)

\* C18 witness: an expression with a dash and a comma, on which the parser
\* and the grammar both fail.
C18_Witness ==
    /\ expr = <<"1", "-", "4", ",">>
    /\ parsed = ParseError
    /\ RefParse(expr) = ParseError

\* C21: an attempt whose transfer was received to its end and failed the
\* verification leaves no temporary file, whether it was fresh or resumed and
\* whether or not another attempt follows; the attempt after it issues its
\* request without a byte range.
C21_RejectedTempRemoved ==
    /\ [][\A s \in Surahs :
            AttemptStep(s) =>
                /\ lastEnd'[s].how = "received" /\ ~result'[s].success =>
                      fs'[TempPath(s)] = NoFile
                /\ lastEnd[s].how = "received" => lastRange'[s] = 0]_vars
    /\ [](\A s \in Surahs :
            pc[s] \in {"attempt", "ret"} /\ ~result[s].success
            /\ lastEnd[s].how = "received" => fs[TempPath(s)] = NoFile)

\* C21 witness: a resumed transfer against a remote that ignores the byte
\* range received the whole item after the old bytes, was rejected, and left
\* no temporary file for the attempt that follows.
C21_Witness ==
    /\ remote[1] = "norange"
    /\ pc[1] = "attempt"
    /\ lastRange[1] >= 1
    /\ lastEnd[1] = [how |-> "received", written |-> FileSize]
    /\ fs[TempPath(1)] = NoFile

\* The entries of the summary's error list that are tagged with item s.
ErrorEntries(s) ==
    {k \in 1..Len(summary.errors) : summary.errors[k].surah = s}

\* C22: when the fan-out has completed, the error list has one entry for every
\* failed item, tagged with its number, none for a successful item and none
\* for any other number, so its length is the failed count.
C22_OneErrorPerFailedItem ==
    mainpc = "returned" =>
        /\ \A s \in Surahs :
             Cardinality(ErrorEntries(s)) = IF s \in Selected /\ Failed(s) THEN 1 ELSE 0
        /\ \A k \in 1..Len(summary.errors) : summary.errors[k].surah \in Selected
        /\ Len(summary.errors) = summary.failed

\* C22 witness: item 1 raised, item 2 returned a failure and was collected
\* first; the list holds the entry of item 2, then that of item 1.
C22_Witness ==
    /\ mainpc = "returned"
    /\ pc[1] = "raised"
    /\ pc[2] = "ret" /\ ~result[2].success
    /\ Len(summary.errors) = 2
    /\ summary.errors[1].surah = 2
    /\ summary.errors[2].surah = 1

\* Item numbers around the places where the zero padding of the file name
\* changes, with those of the model.
PathItems == Surahs \cup {9, 10, 99, 100, LastSurah}

\* C23: distinct item numbers have distinct destination and temporary paths,
\* none of which is a path of the other; a file changes only in a step of the
\* fetch of the item it belongs to, and no two fetches act in one step; and a
\* fetch that finds the reciter directory made by another never fails on it.
C23_NoSharedFile ==
    /\ \A a, b \in PathItems :
            a # b => {FilePath(a), TempPath(a)} \cap {FilePath(b), TempPath(b)} = {}
    /\ \A a \in PathItems : FilePath(a) # TempPath(a)
    /\ [][\A s \in Surahs :
            fs'[FilePath(s)] # fs[FilePath(s)] \/ fs'[TempPath(s)] # fs[TempPath(s)] =>
                /\ AttemptStep(s)
                /\ \A o \in Surahs \ {s} :
                     /\ ~AttemptStep(o) /\ ~EntryStep(o)
                     /\ fs'[FilePath(o)] = fs[FilePath(o)]
                     /\ fs'[TempPath(o)] = fs[TempPath(o)]]_vars
    /\ [][\A s \in Surahs :
            EntryStep(s) /\ dirExists => pc'[s] # "raised" /\ dirExists']_vars

\* C23 witness: two fetches are in flight in the directory one of them made,
\* the first after a failed attempt of its own, the second before its
\* transfer.
C23_Witness ==
    /\ mainpc = "fanout"
    /\ dirExists
    /\ pc[1] = "attempt" /\ result[1].attempts >= 1
    /\ pc[2] = "attempt" /\ result[2].attempts = 0

\* C24: a fetch never issues more than max_retries transfer requests; an
\* invocation that has begun the fan-out returns its summary; and when it
\* does, the fetch of every selected item has ended.
C24_Terminates ==
    /\ [](\A s \in Surahs : requests[s] <= max_retries /\ result[s].attempts <= max_retries)
    /\ [](mainpc = "returned" => \A s \in Selected : Finished(s))
    /\ (mainpc = "fanout") ~> (mainpc = "returned")

\* C24 witness: an invocation returned its summary after an item used all of
\* its max_retries >= 2 transfer requests without success.
C24_Witness ==
    /\ mainpc = "returned"
    /\ max_retries >= 2
    /\ \E s \in Selected :
         requests[s] = max_retries /\ pc[s] = "ret" /\ ~result[s].success

\* C25: after the caller's abort no item that has not started is dispatched,
\* a transfer in flight ends or leaves its temporary file in place, and no
\* step after the abort leaves a destination file that is not the whole item.
C25_Cancellation ==
    /\ [][mainpc = "interrupted" =>
            \A s \in Surahs : pc[s] = "queued" => pc'[s] = "queued"]_vars
    /\ [][mainpc = "interrupted" =>
            \A s \in Surahs :
                /\ fs'[FilePath(s)] # fs[FilePath(s)] => fs'[FilePath(s)] = File(Content)
                /\ (fs[TempPath(s)].exists /\ ~fs'[TempPath(s)].exists) =>
                      lastEnd'[s].how = "received"]_vars

\* C26: against a remote that serves the item correctly, a fetch that reports
\* success leaves the remote item's bytes at the destination path, whatever
\* files were there before and whether or not the remote sends a checksum.
C26_SuccessMeansRemoteBytes ==
    (remote[1] \in {"good", "norange"} /\ Succeeded(1)) => fs[FilePath(1)] = File(Content)

\* C27: against a remote that serves satisfiable requests correctly and
\* rejects an unsatisfiable range, a fetch that made a transfer request and
\* ended in failure leaves no temporary file as long as the item or longer.
C27_NoStuckTemp ==
    (remote[1] = "good" /\ Failed(1) /\ result[1].attempts >= 1) =>
        ~(fs[TempPath(1)].exists /\ Len(fs[TempPath(1)].data) >= FileSize)

\* C28: every selection that parse_surah_selection returns is non-empty.
C28_ParsedNonEmpty == (parsed.called /\ parsed.ok) => parsed.list # <<>>

\* C29: every summary that download() returns, before the fan-out or after
\* it, has success + failed = total.
C29_EveryReturnedSummaryAddsUp ==
    mainpc \in {"no reciters", "declined", "returned"} =>
        summary.success + summary.failed = summary.total

====
